---- MODULE Spec2Model ----
(***************************************************************************)
(* A model of services/pst-extractor/src/main.rs: the message segmenter    *)
(* (looks_like_mbox, split_mbox), the body selector (collect_text_bodies,  *)
(* choose_best_body_*, select_email_bodies), the attachment classifier,    *)
(* sanitize_filename, the deterministic identifiers and the main loop.     *)
(*                                                                         *)
(* Strings and byte buffers are sequences of tokens.  A token is a TLA+    *)
(* string that stands for one fixed piece of text: a single character in   *)
(* byte buffers, header values, paths and file names ("a", "/", "\n"), a   *)
(* whole word in message bodies ("caution", "external").  Bytes, Alnum and *)
(* Lower give a token's UTF-8 length, its count of ASCII alphanumerics and *)
(* its ASCII lower-case form.  Option<T> is a sequence of length 0 (None)  *)
(* or 1 (Some).                                                            *)
(***************************************************************************)
EXTENDS Integers, Sequences, FiniteSets, TLC

VARIABLES
    pc,                 \* position of the running computation
    arg,                \* the input: a function's argument, or the extracted files
    res,                \* the result of the function under check
    todo,               \* main: the directory entries WalkDir has not yielded yet
    rel_source,         \* main: the relative path of the file being processed
    messages,           \* main: the messages of that file
    msg_idx,            \* main: the index of the message being processed
    id,                 \* main: the id of the email being processed
    parts,              \* main: the attachment parts of that email
    part_idx,           \* main: the index of the part being processed
    emails,             \* the EmailRecords written (ndjson and csv rows)
    attachments,        \* the AttachmentRecords written (ndjson and csv rows)
    emails_total,
    attachments_total,
    s3,                 \* the keys uploaded to the output bucket, in upload order
    manifest,           \* the manifest once written
    artifact            \* main: the number of final artifacts uploaded

mainVars == <<todo, rel_source, messages, msg_idx, id, parts, part_idx, emails, attachments,
              emails_total, attachments_total, s3, manifest, artifact>>
vars == <<pc, arg, res, mainVars>>

\* the main loop has not run
MainIdle ==
    /\ todo = {}
    /\ rel_source = <<>>
    /\ messages = <<>>
    /\ msg_idx = 0
    /\ id = <<>>
    /\ parts = <<>>
    /\ part_idx = 0
    /\ emails = <<>>
    /\ attachments = <<>>
    /\ emails_total = 0
    /\ attachments_total = 0
    /\ s3 = <<>>
    /\ manifest = <<>>
    /\ artifact = 0

(***************************************************************************)
(* Sequences as strings                                                    *)
(***************************************************************************)
None == <<>>
Some(v) == <<v>>
IsSome(o) == Len(o) = 1

Max(a, b) == IF a >= b THEN a ELSE b

\* Rust's s[a..b] over 0-based offsets
Slice(s, a, b) == SubSeq(s, a + 1, b)

\* s.starts_with(p)
StartsWith(s, p) == Len(s) >= Len(p) /\ SubSeq(s, 1, Len(p)) = p

\* s.contains(p)
Contains(s, p) == \E i \in 1..(Len(s) - Len(p) + 1) : SubSeq(s, i, i + Len(p) - 1) = p

RECURSIVE Concat(_)
\* the concatenation of a sequence of sequences
Concat(ss) == IF ss = <<>> THEN <<>> ELSE Head(ss) \o Concat(Tail(ss))

RECURSIVE SortedSeq(_)
\* the elements of a finite set of numbers in increasing order
SortedSeq(S) ==
    IF S = {} THEN <<>>
    ELSE LET m == CHOOSE x \in S : \A y \in S : x <= y
         IN <<m>> \o SortedSeq(S \ {m})

\* sequences over S of length lo..hi
SeqsBetween(S, lo, hi) == UNION {[1..n -> S] : n \in lo..hi}

(***************************************************************************)
(* Tokens                                                                  *)
(***************************************************************************)
\* a run of n ASCII digits "0", one token
Fill(n) == "0*" \o ToString(n)
FillSizes == {1, 9, 11, 19, 20, 39, 204}
FillTokens == {Fill(n) : n \in FillSizes}
FillSize(t) == CHOOSE n \in FillSizes : Fill(n) = t

\* tokens that are one non-ASCII character: UTF-8 length above 1
WideChars == {"U+00E9", "U+20AC"}
WideBytes(t) == IF t = "U+00E9" THEN 2 ELSE 3

\* ASCII tokens that are no letter or digit
Punctuation == {" ", "\t", "\n", "\r", "NUL", "<", ">", ":", ";", ",", ".", "=", "\"", "'",
                "/", "\\", "|", "-", "_", "@"}

\* char::is_ascii_alphanumeric, counted over a token
Alnum(t) ==
    IF t \in Punctuation \/ t \in WideChars THEN 0
    ELSE IF t \in FillTokens THEN FillSize(t)
    ELSE IF t = "don't" THEN 4
    ELSE Len(t)

\* the UTF-8 length of a token
Bytes(t) ==
    IF t \in WideChars THEN WideBytes(t)
    ELSE IF t \in FillTokens THEN FillSize(t)
    ELSE IF t = "NUL" THEN 1
    ELSE Len(t)

UpperTokens ==
    [t \in {"CAUTION", "EXTERNAL", "EMAIL", "WARNING", "Do", "Hello", "A", "I", "F", "N", "C", "D",
                "Content-Disposition", "Content-Type", "Content-ID", "Message-ID"} |->
        CASE t = "CAUTION" -> "caution" [] t = "EXTERNAL" -> "external" [] t = "EMAIL" -> "email"
          [] t = "WARNING" -> "warning" [] t = "Do" -> "do" [] t = "Hello" -> "hello"
          [] t = "A" -> "a" [] t = "I" -> "i" [] t = "F" -> "f" [] t = "N" -> "n"
          [] t = "C" -> "c" [] t = "D" -> "d"
          [] t = "Content-Disposition" -> "content-disposition"
          [] t = "Content-Type" -> "content-type"
          [] t = "Content-ID" -> "content-id"
          [] t = "Message-ID" -> "message-id"]

\* char::to_ascii_lowercase over a token
Lower(t) == IF t \in DOMAIN UpperTokens THEN UpperTokens[t] ELSE t

\* str::to_ascii_lowercase
to_ascii_lowercase(s) == [i \in 1..Len(s) |-> Lower(s[i])]

\* char::is_whitespace
IsWhitespace(t) == t \in {" ", "\t", "\n", "\r"}

RECURSIVE trim_start(_)
trim_start(s) == IF s # <<>> /\ IsWhitespace(Head(s)) THEN trim_start(Tail(s)) ELSE s

RECURSIVE trim_end(_)
trim_end(s) ==
    IF s # <<>> /\ IsWhitespace(s[Len(s)]) THEN trim_end(SubSeq(s, 1, Len(s) - 1)) ELSE s

\* str::trim
trim(s) == trim_end(trim_start(s))

\* str::len, in bytes
ByteLen(s) == Cardinality(UNION {{<<i, b>> : b \in 1..Bytes(s[i])} : i \in 1..Len(s)})

(***************************************************************************)
(* MessageSegmenter: looks_like_mbox, split_mbox                           *)
(***************************************************************************)
NL == <<"\n">>
FromSp == <<"F", "r", "o", "m", " ">>

\* buf.starts_with(b"From ") || buf.windows(6).any(|w| w == b"\nFrom ")
looks_like_mbox(buf) == StartsWith(buf, FromSp) \/ Contains(buf, NL \o FromSp)

\* the offsets pushed by the scan loop, for i in 0..buf.len().saturating_sub(6)
ScanStarts(buf) ==
    {i + 1 : i \in {j \in 0..(Max(Len(buf) - 6, 0) - 1) :
                        buf[j + 1] = "\n" /\ StartsWith(Slice(buf, j + 1, Len(buf)), FromSp)}}

\* starts after sort_unstable() and dedup()
MboxStarts(buf) ==
    SortedSeq((IF StartsWith(buf, FromSp) THEN {0} ELSE {}) \cup ScanStarts(buf))

\* seg.iter().position(|b| *b == b'\n'): Some(0-based offset) or None
PositionNL(seg) ==
    IF \E i \in 1..Len(seg) : seg[i] = "\n"
    THEN Some((CHOOSE i \in 1..Len(seg) : seg[i] = "\n" /\ \A j \in 1..(i - 1) : seg[j] # "\n") - 1)
    ELSE None

\* SegmentMessage with a fault seeded: the envelope line is kept
SegmentMessageKeepsEnvelope(seg) == IF seg # <<>> THEN <<seg>> ELSE <<>>

\* one segment with its first line dropped: the message pushed, if any
SegmentMessage(seg) ==
    LET pos == PositionNL(seg)
    IN IF IsSome(pos) /\ pos[1] + 1 < Len(seg)
       THEN <<Slice(seg, pos[1] + 1, Len(seg))>>
       ELSE <<>>

RECURSIVE SplitFrom(_, _, _)
SplitFrom(buf, starts, idx) ==
    IF idx > Len(starts) THEN <<>>
    ELSE LET start == starts[idx]
             end == IF idx + 1 <= Len(starts) THEN starts[idx + 1] ELSE Len(buf)
         IN (IF end <= start THEN <<>> ELSE SegmentMessage(Slice(buf, start, end)))
            \o SplitFrom(buf, starts, idx + 1)

split_mbox(buf) ==
    LET starts == MboxStarts(buf)
    IN IF starts = <<>> THEN <<buf>> ELSE SplitFrom(buf, starts, 1)

----
\* Inputs of the segmenter: blobs of two mbox-style messages.
MaxMsgPieces == 3
MsgPieces == {<<"x">>, NL, FromSp}
EnvTails == {<<>>, <<"x">>, <<" ", "F", "r", "o", "m", " ">>}

\* an envelope line: "From ", anything but a line break, a line break
EnvLine(tail) == FromSp \o tail \o NL

\* an mbox-style message: not empty, no line of it starts with "From "
IsMboxMessage(m) == m # <<>> /\ ~StartsWith(m, FromSp) /\ ~Contains(m, NL \o FromSp)

MboxMessages == {m \in {Concat(ps) : ps \in SeqsBetween(MsgPieces, 1, MaxMsgPieces)} : IsMboxMessage(m)}

\* a first message ends its last line, so that the separator starts a line
FirstMessages == {m \in MboxMessages : m[Len(m)] = "\n"}

TwoMessageBlob(lead, t1, m1, t2, m2) ==
    [buf |-> (IF lead THEN EnvLine(t1) ELSE <<>>) \o m1 \o EnvLine(t2) \o m2,
     lead |-> lead, m1 |-> m1, m2 |-> m2]

InitMbox ==
    /\ pc = "mbox"
    /\ \E lead \in BOOLEAN, t1 \in EnvTails, t2 \in EnvTails, m1 \in FirstMessages, m2 \in MboxMessages :
         /\ (~lead => t1 = <<>>)
         /\ arg = TwoMessageBlob(lead, t1, m1, t2, m2)
    /\ res = <<>>
    /\ MainIdle

\* main.rs 616-617: the blob is split when it looks like mbox
SplitMbox ==
    /\ pc = "mbox"
    /\ looks_like_mbox(arg.buf)
    /\ res' = split_mbox(arg.buf)
    /\ pc' = "split"
    /\ UNCHANGED <<arg, mainVars>>

NextMbox == SplitMbox
SpecMbox == InitMbox /\ [][NextMbox]_vars

\* C2 as claimed: every two-message blob, with or without a leading envelope
\* line, splits into exactly its two messages, in order, envelope lines removed.
C2_AsClaimed == pc = "split" => res = <<arg.m1, arg.m2>>

\* C2 (amended): a two-message blob that begins with the first message's
\* "From " envelope line splits into exactly its two messages, in blob order,
\* each without its envelope line; a blob whose first message has no envelope
\* line loses that message, and only the second one is returned.
C2_TwoMessages ==
    pc = "split" =>
        /\ arg.lead => res = <<arg.m1, arg.m2>>
        /\ ~arg.lead => res = <<arg.m2>>

C2_Witness ==
    /\ pc = "split"
    /\ arg.lead
    /\ Len(res) = 2
    /\ Contains(arg.m1, FromSp)
    /\ Len(arg.m2) > 1

(***************************************************************************)
(* BodySelector: text helpers                                              *)
(***************************************************************************)
RECURSIVE ReplaceCrLf(_)
\* text.replace("\r\n", "\n")
ReplaceCrLf(s) ==
    IF s = <<>> THEN <<>>
    ELSE IF Len(s) >= 2 /\ s[1] = "\r" /\ s[2] = "\n"
         THEN <<"\n">> \o ReplaceCrLf(SubSeq(s, 3, Len(s)))
         ELSE <<Head(s)>> \o ReplaceCrLf(Tail(s))

\* text.replace("\r\n", "\n").replace('\r', "\n")
normalize_newlines(text) ==
    LET t == ReplaceCrLf(text)
    IN [i \in 1..Len(t) |-> IF t[i] = "\r" THEN "\n" ELSE t[i]]

RECURSIVE core_alnum_len(_)
\* text.chars().filter(|c| c.is_ascii_alphanumeric()).count()
core_alnum_len(text) == IF text = <<>> THEN 0 ELSE Alnum(Head(text)) + core_alnum_len(Tail(text))

RECURSIVE Split(_, _)
\* str::split(sep): the pieces between the separators, at least one
Split(s, sep) ==
    IF \E i \in 1..Len(s) : s[i] = sep
    THEN LET i == CHOOSE k \in 1..Len(s) : s[k] = sep /\ \A j \in 1..(k - 1) : s[j] # sep
         IN <<SubSeq(s, 1, i - 1)>> \o Split(SubSeq(s, i + 1, Len(s)), sep)
    ELSE <<s>>

\* str::lines of a text without "\r": the final line ending is optional
Lines(s) ==
    LET ps == Split(s, "\n")
    IN IF ps[Len(ps)] = <<>> THEN SubSeq(ps, 1, Len(ps) - 1) ELSE ps

RECURSIVE Join(_, _)
\* [&str]::join(sep)
Join(ls, sep) ==
    IF ls = <<>> THEN <<>>
    ELSE IF Len(ls) = 1 THEN ls[1]
    ELSE ls[1] \o sep \o Join(Tail(ls), sep)

RECURSIVE Phrase(_)
\* words separated by single spaces
Phrase(ws) == IF Len(ws) <= 1 THEN ws ELSE <<ws[1], " ">> \o Phrase(Tail(ws))

\* main.rs 155-164, over l = line.trim().to_ascii_lowercase()
looks_like_external_banner(l) ==
    \/ /\ Contains(l, Phrase(<<"external", "email">>))
       /\ \/ Contains(l, <<"caution">>)
          \/ Contains(l, <<"warning">>)
          \/ Contains(l, Phrase(<<"external", "sender">>))
          \/ Contains(l, <<"originated">>)
    \/ StartsWith(l, <<"caution">>) /\ Contains(l, <<"external">>)
    \/ StartsWith(l, <<"warning">>) /\ Contains(l, <<"external">>)
    \/ StartsWith(l, Phrase(<<"this", "email", "originated">>))
    \/ StartsWith(l, Phrase(<<"do", "not", "click">>))
    \/ StartsWith(l, Phrase(<<"don't", "click">>))
    \/ Contains(l, Phrase(<<"unless", "you", "recognise">>))
    \/ Contains(l, Phrase(<<"unless", "you", "recognize">>))
    \/ Contains(l, Phrase(<<"expected", "and", "known", "to", "be", "safe">>))

\* the loop body of strip_external_banner_lines: is the line pushed to kept?
KeepsLine(line) ==
    LET l == to_ascii_lowercase(trim(line))
    IN l = <<>> \/ ~looks_like_external_banner(l)

strip_external_banner_lines(text) ==
    Join(SelectSeq(Lines(normalize_newlines(text)), KeepsLine), <<"\n">>)

is_mostly_external_banner(text) ==
    LET lower == to_ascii_lowercase(text)
        core_total == core_alnum_len(text)
        core_stripped == core_alnum_len(strip_external_banner_lines(text))
    IN IF ~Contains(lower, <<"external">>) THEN FALSE
       ELSE core_total > 0 /\ core_total < 220 /\ core_stripped < 40

RECURSIVE HtmlText(_, _)
HtmlText(html, in_tag) ==
    IF html = <<>> THEN <<>>
    ELSE LET ch == Head(html)
         IN IF ch = "<" THEN HtmlText(Tail(html), TRUE)
            ELSE IF ch = ">" THEN HtmlText(Tail(html), FALSE)
            ELSE (IF in_tag THEN <<>> ELSE <<ch>>) \o HtmlText(Tail(html), in_tag)

html_to_text_rough(html) == HtmlText(html, FALSE)

(***************************************************************************)
(* MimeTree: a node has a MIME type, headers, subparts, and the results of    *)
(* get_body() and get_body_raw() (None when the decoding fails)            *)
(***************************************************************************)
Header(name, value) == [name |-> name, value |-> value]

Leaf(ctype, headers, body, raw) ==
    [ctype |-> ctype, headers |-> headers, subparts |-> <<>>, body |-> body, raw |-> raw]

Multipart(ctype, subparts) ==
    [ctype |-> ctype, headers |-> <<>>, subparts |-> subparts, body |-> None, raw |-> None]

\* MailHeaderMap::get_all_values: header names match case-insensitively
get_all_values(headers, name) ==
    LET hs == SelectSeq(headers, LAMBDA h : Lower(h.name) = Lower(name))
    IN [i \in 1..Len(hs) |-> hs[i].value]

get_first_value(headers, name) ==
    LET vs == get_all_values(headers, name)
    IN IF vs = <<>> THEN None ELSE Some(vs[1])

header_first(mail, name) ==
    LET v == get_first_value(mail.headers, name)
    IN IF IsSome(v) /\ trim(v[1]) # <<>> THEN Some(trim(v[1])) ELSE None

unwrap_or_default(o) == IF IsSome(o) THEN o[1] ELSE <<>>

ATTACHMENT == <<"a", "t", "t", "a", "c", "h", "m", "e", "n", "t">>
INLINE == <<"i", "n", "l", "i", "n", "e">>

is_attachment_disposition(part) ==
    LET cd == to_ascii_lowercase(unwrap_or_default(header_first(part, "Content-Disposition")))
    IN StartsWith(trim_start(cd), ATTACHMENT)

(***************************************************************************)
(* BodySelector: collect_text_bodies, choose_best_body_*, select_email_bodies *)
(***************************************************************************)
\* collect_text_bodies with a fault seeded: the disposition is not looked at
LeafBodyIgnoringDisposition(mail, mime_prefix) ==
    LET ctype == to_ascii_lowercase(mail.ctype)
    IN IF (ctype = mime_prefix \/ StartsWith(ctype, mime_prefix))
          /\ IsSome(mail.body) /\ trim(mail.body[1]) # <<>>
       THEN <<mail.body[1]>>
       ELSE <<>>

\* main.rs 211-226: what a leaf adds to out
LeafBody(mail, mime_prefix) ==
    LET ctype == to_ascii_lowercase(mail.ctype)
    IN IF ctype = mime_prefix \/ StartsWith(ctype, mime_prefix)
       THEN IF is_attachment_disposition(mail) THEN <<>>
            ELSE IF IsSome(mail.body) /\ trim(mail.body[1]) # <<>> THEN <<mail.body[1]>>
            ELSE <<>>
       ELSE <<>>

RECURSIVE collect_text_bodies(_, _)
collect_text_bodies(mail, mime_prefix) ==
    IF mail.subparts = <<>> THEN LeafBody(mail, mime_prefix)
    ELSE Concat([i \in 1..Len(mail.subparts) |-> collect_text_bodies(mail.subparts[i], mime_prefix)])

RECURSIVE BestIdx(_, _, _, _)
\* the scoring loop: the index left in best_idx (1-based)
BestIdx(scores, idx, best_idx, best_score) ==
    IF idx > Len(scores) THEN best_idx
    ELSE IF scores[idx] > best_score
         THEN BestIdx(scores, idx + 1, idx, scores[idx])
         ELSE BestIdx(scores, idx + 1, best_idx, best_score)

TextScore(c) == core_alnum_len(strip_external_banner_lines(c))
HtmlScore(c) == core_alnum_len(strip_external_banner_lines(html_to_text_rough(c)))

TEXT_PLAIN == <<"text/plain">>
TEXT_HTML == <<"text/html">>

choose_best_body_text(mail) ==
    LET candidates == collect_text_bodies(mail, TEXT_PLAIN)
        scores == [i \in 1..Len(candidates) |-> TextScore(candidates[i])]
    IN IF candidates = <<>> THEN None
       ELSE Some(candidates[BestIdx(scores, 1, 1, 0)])

choose_best_body_html(mail) ==
    LET candidates == collect_text_bodies(mail, TEXT_HTML)
        scores == [i \in 1..Len(candidates) |-> HtmlScore(candidates[i])]
    IN IF candidates = <<>> THEN None
       ELSE Some(candidates[BestIdx(scores, 1, 1, 0)])

\* select_email_bodies with a fault seeded: a banner-only text body is kept
\* when the HTML derivation is too small
select_email_bodies_keeping_banner(mail) ==
    LET body_text == choose_best_body_text(mail)
        body_html == choose_best_body_html(mail)
        candidate == trim(strip_external_banner_lines(html_to_text_rough(body_html[1])))
    IN [body_text |->
            IF IsSome(body_text) /\ IsSome(body_html) /\ is_mostly_external_banner(body_text[1])
               /\ core_alnum_len(candidate) >= 20
            THEN Some(candidate)
            ELSE body_text,
        body_html |-> body_html]

select_email_bodies(mail) ==
    LET body_text == choose_best_body_text(mail)
        body_html == choose_best_body_html(mail)
        candidate == trim(strip_external_banner_lines(html_to_text_rough(body_html[1])))
    IN [body_text |->
            IF IsSome(body_text) /\ IsSome(body_html) /\ is_mostly_external_banner(body_text[1])
            THEN IF core_alnum_len(candidate) >= 20 THEN Some(candidate) ELSE None
            ELSE body_text,
        body_html |-> body_html]

----
\* Inputs of the body selector: MIME trees over a pool of leaves.
CRLF == <<"\r", "\n">>
LineCaution == <<"CAUTION", ":", " ", "EXTERNAL", " ", "EMAIL">>
LineClick == Phrase(<<"Do", "not", "click", "links", "unless", "you", "recognize", "the", "sender">>)
LineHello == <<"Hello", " ", "team", ",">>
LineReal == Phrase(<<"this", "is", "the", "real", "body", "text">>) \o <<".">>
LineAlso == Phrase(<<"body", "text", "the", "real", "this", "is">>) \o <<".">>
LineExt20 == Phrase(<<"see", "external", Fill(9)>>)
LineExt19 == Phrase(<<"external", Fill(11)>>)
LineBig == Phrase(<<"caution", "external", Fill(204)>>)
LineNote == Phrase(<<"attached", "note", Fill(204)>>)

P(line) == <<"<", "p", ">">> \o line \o <<"<", "/", "p", ">">>

PlainTexts ==
    { LineCaution \o CRLF \o LineClick \o CRLF,        \* banner only
      LineCaution,                                     \* banner only, shorter
      LineBig,                                         \* banner only, 219 alphanumerics
      LineBig \o NL \o <<Fill(1)>>,                    \* 220 alphanumerics
      LineCaution \o NL \o <<Fill(39)>>,               \* 39 left after filtering
      LineCaution \o NL \o <<Fill(39), Fill(1)>>,      \* 40 left after filtering
      LineHello \o CRLF \o LineReal,
      LineHello \o <<"\r">> \o LineAlso,
      LineExt20,                                       \* no banner line, says "external"
      <<" ">> \o CRLF }                                \* blank

HtmlTexts ==
    { P(LineHello) \o P(LineReal) \o CRLF,
      P(LineCaution) \o NL \o P(LineExt20),
      P(LineCaution) \o NL \o P(LineExt19),
      P(LineCaution) \o NL \o <<" ">> \o P(<<Fill(20)>>) \o <<" ">> \o NL,
      P(LineCaution) \o NL \o P(<<Fill(19)>>),
      P(LineCaution),
      P(LineCaution \o <<" ">> \o <<Fill(39)>>) }

CdAttachmentNote ==
    ATTACHMENT \o <<";", " ", "f", "i", "l", "e", "n", "a", "m", "e", "=", "\"", "n", ".", "t", "x", "t", "\"">>
CdAttachmentUpper == <<" ", "A">> \o Tail(ATTACHMENT)

BodyLeaves ==
    {Leaf(TEXT_PLAIN, <<>>, Some(t), None) : t \in PlainTexts}
    \cup {Leaf(TEXT_HTML, <<>>, Some(t), None) : t \in HtmlTexts}
    \cup { Leaf(TEXT_PLAIN, <<Header("Content-Disposition", CdAttachmentNote)>>, Some(LineNote), None),
           Leaf(TEXT_HTML, <<Header("content-disposition", CdAttachmentUpper)>>, Some(P(LineNote)), None),
           Leaf(TEXT_PLAIN, <<Header("Content-Disposition", INLINE)>>, Some(LineReal), None),
           Leaf(TEXT_PLAIN, <<>>, None, None),
           Leaf(<<"text/plain", "-", "x">>, <<>>, Some(LineAlso), None),
           Leaf(<<"application/pdf">>, <<>>, Some(LineReal), None) }

\* the leaves of nested multipart/alternative parts
InnerLeaves ==
    { Leaf(TEXT_PLAIN, <<>>, Some(LineHello \o CRLF \o LineReal), None),
      Leaf(TEXT_PLAIN, <<>>, Some(LineCaution), None),
      Leaf(TEXT_HTML, <<>>, Some(P(LineCaution) \o NL \o P(LineExt20)), None) }

MaxParts == 2
BodyParts ==
    BodyLeaves \cup {Multipart(<<"multipart/alternative">>, <<a, b>>) : a \in InnerLeaves, b \in InnerLeaves}
BodyMails ==
    BodyLeaves \cup {Multipart(<<"multipart/mixed">>, ps) : ps \in SeqsBetween(BodyParts, 1, MaxParts)}

InitBody ==
    /\ pc = "body"
    /\ arg \in [mail : BodyMails]
    /\ res = <<>>
    /\ MainIdle

\* main.rs 672: select_email_bodies(&mail), with the candidate lists and the
\* choices it makes on the way
SelectEmailBodies ==
    /\ pc = "body"
    /\ res' = [text_candidates |-> collect_text_bodies(arg.mail, TEXT_PLAIN),
               html_candidates |-> collect_text_bodies(arg.mail, TEXT_HTML),
               chosen_text |-> choose_best_body_text(arg.mail),
               chosen_html |-> choose_best_body_html(arg.mail),
               body_text |-> select_email_bodies(arg.mail).body_text,
               body_html |-> select_email_bodies(arg.mail).body_html]
    /\ pc' = "selected"
    /\ UNCHANGED <<arg, mainVars>>

NextBody == SelectEmailBodies
SpecBody == InitBody /\ [][NextBody]_vars

\* "mostly banner" as the design states it
ClassifiedMostlyBanner(text) ==
    /\ Contains(to_ascii_lowercase(text), <<"external">>)
    /\ core_alnum_len(text) < 220
    /\ core_alnum_len(strip_external_banner_lines(text)) < 40

HtmlDerivation(html) == trim(strip_external_banner_lines(html_to_text_rough(html)))

\* C3: when the chosen plain-text body is mostly banner and an HTML body was
\* chosen, the plain-text body returned is the HTML derivation if that has at
\* least 20 alphanumerics and absent otherwise; in every other case it is the
\* chosen candidate; the HTML body returned is the chosen one, unmodified.
C3_BannerOverride ==
    pc = "selected" =>
        /\ res.body_html = res.chosen_html
        /\ IF IsSome(res.chosen_text) /\ IsSome(res.chosen_html)
              /\ ClassifiedMostlyBanner(res.chosen_text[1])
           THEN LET d == HtmlDerivation(res.chosen_html[1])
                IN IF core_alnum_len(d) >= 20 THEN res.body_text = Some(d) ELSE res.body_text = None
           ELSE res.body_text = res.chosen_text

\* the banner text is dropped for want of a big enough HTML derivation
C3_Witness ==
    /\ pc = "selected"
    /\ IsSome(res.chosen_text) /\ IsSome(res.chosen_html)
    /\ ClassifiedMostlyBanner(res.chosen_text[1])
    /\ core_alnum_len(HtmlDerivation(res.chosen_html[1])) = 19
    /\ res.body_text = None

\* C4 as claimed: a plain-text body returned together with an HTML body is
\* never classified mostly-banner.
C4_AsClaimed ==
    (pc = "selected" /\ IsSome(res.body_text) /\ IsSome(res.body_html))
        => ~is_mostly_external_banner(res.body_text[1])

RECURSIVE LeavesOf(_)
\* the leaves of a tree in document order
LeavesOf(mail) ==
    IF mail.subparts = <<>> THEN <<mail>>
    ELSE Concat([i \in 1..Len(mail.subparts) |-> LeavesOf(mail.subparts[i])])

Range(s) == {s[i] : i \in 1..Len(s)}

\* Content-Disposition starts, case-insensitively, with "attachment"
DisposedAsAttachment(leaf) ==
    \E i \in 1..Len(leaf.headers) :
        /\ Lower(leaf.headers[i].name) = "content-disposition"
        /\ \A j \in 1..(i - 1) : Lower(leaf.headers[j].name) # "content-disposition"
        /\ StartsWith(to_ascii_lowercase(trim(leaf.headers[i].value)), ATTACHMENT)

\* a leaf of the target type that is not disposed as an attachment
BodyLeafOf(leaf, mime_prefix) ==
    StartsWith(to_ascii_lowercase(leaf.ctype), mime_prefix) /\ ~DisposedAsAttachment(leaf)

\* the text of an attachment leaf that no other kind of leaf carries
AttachmentOnlyTexts(mail) ==
    {l.body[1] : l \in {x \in Range(LeavesOf(mail)) : DisposedAsAttachment(x) /\ IsSome(x.body)}}
    \ {l.body[1] : l \in {x \in Range(LeavesOf(mail)) : ~DisposedAsAttachment(x) /\ IsSome(x.body)}}

\* C5: every body candidate is the text of a leaf of the target type that is
\* not disposed as an attachment, and the text of an attachment leaf is never
\* the plain-text or HTML body returned.
C5_NoAttachmentBody ==
    pc = "selected" =>
        /\ \A c \in Range(res.text_candidates) :
              \E l \in Range(LeavesOf(arg.mail)) : BodyLeafOf(l, TEXT_PLAIN) /\ l.body = Some(c)
        /\ \A c \in Range(res.html_candidates) :
              \E l \in Range(LeavesOf(arg.mail)) : BodyLeafOf(l, TEXT_HTML) /\ l.body = Some(c)
        /\ \A t \in AttachmentOnlyTexts(arg.mail) :
              /\ t \notin Range(res.text_candidates) \cup Range(res.html_candidates)
              /\ res.body_text # Some(t)
              /\ res.body_html # Some(t)

\* an attachment leaf outscores the body that is selected
C5_Witness ==
    /\ pc = "selected"
    /\ IsSome(res.body_text)
    /\ res.body_text = res.chosen_text
    /\ \E l \in Range(LeavesOf(arg.mail)) :
          /\ DisposedAsAttachment(l)
          /\ l.ctype = TEXT_PLAIN
          /\ IsSome(l.body)
          /\ TextScore(l.body[1]) > TextScore(res.body_text[1])

\* the first position of the greatest score
FirstMax(scores) ==
    CHOOSE i \in 1..Len(scores) :
        /\ \A j \in 1..Len(scores) : scores[j] <= scores[i]
        /\ \A j \in 1..(i - 1) : scores[j] < scores[i]

ChoiceAsClaimed(candidates, scores, chosen) ==
    candidates # <<>> =>
        /\ IsSome(chosen)
        /\ IF \A i \in 1..Len(scores) : scores[i] = 0
           THEN /\ chosen[1] \in Range(candidates)
                /\ \A i \in 1..Len(candidates) : ByteLen(candidates[i]) <= ByteLen(chosen[1])
           ELSE chosen[1] = candidates[FirstMax(scores)]

\* C10 as claimed: with no candidate scoring above zero the longest raw
\* candidate is returned; otherwise the first candidate of the greatest score.
C10_AsClaimed ==
    pc = "selected" =>
        /\ ChoiceAsClaimed(res.text_candidates,
                           [i \in 1..Len(res.text_candidates) |-> TextScore(res.text_candidates[i])],
                           res.chosen_text)
        /\ ChoiceAsClaimed(res.html_candidates,
                           [i \in 1..Len(res.html_candidates) |-> HtmlScore(res.html_candidates[i])],
                           res.chosen_html)

(***************************************************************************)
(* sanitize_filename                                                       *)
(***************************************************************************)
MaxFilenameLen == 200

\* str::replace(from, to) with a one-character replacement
ReplaceChar(s, from, to) == [i \in 1..Len(s) |-> IF s[i] = from THEN to ELSE s[i]]

\* str::replace(from, "")
RemoveChar(s, from) == SelectSeq(s, LAMBDA c : c # from)

\* the UTF-8 length of the first k tokens: one byte each, and the further
\* bytes of the wider ones
BytesUpTo(s, k) ==
    k + Cardinality(UNION {{<<i, b>> : b \in 2..Bytes(s[i])} : i \in {j \in 1..k : Bytes(s[j]) > 1}})

\* the numbers of leading characters that take exactly n bytes (at most one)
CharsAtByte(s, n) ==
    LET len == BytesUpTo(s, Len(s))
    IN {k \in Max(0, n - (len - Len(s)))..n : k <= Len(s) /\ BytesUpTo(s, k) = n}

\* str::is_char_boundary(n)
is_char_boundary(s, n) == CharsAtByte(s, n) # {}

\* String::truncate(new_len): no-op when new_len > len, panics when new_len
\* is not on a char boundary
truncate(s, new_len) ==
    IF new_len > BytesUpTo(s, Len(s)) THEN [panicked |-> FALSE, name |-> s]
    ELSE IF is_char_boundary(s, new_len)
         THEN [panicked |-> FALSE, name |-> SubSeq(s, 1, CHOOSE k \in CharsAtByte(s, new_len) : TRUE)]
         ELSE [panicked |-> TRUE, name |-> <<>>]

sanitize_filename(value, fallback) ==
    LET trimmed == trim(value)
        name == IF trimmed = <<>> THEN fallback ELSE trimmed
        clean == RemoveChar(RemoveChar(RemoveChar(
                     ReplaceChar(ReplaceChar(name, "\\", "_"), "/", "_"), "NUL"), "\r"), "\n")
    IN IF BytesUpTo(clean, Len(clean)) > MaxFilenameLen
       THEN truncate(clean, MaxFilenameLen)
       ELSE [panicked |-> FALSE, name |-> clean]

----
\* Inputs of sanitize_filename: short and long names over a small alphabet.
MaxTail == 2
NameChars == {"a", ".", " ", "/", "\\", "NUL", "\r", "\n", "U+00E9"}
NameLeads == {<<>>, <<" ">>, <<"NUL">>}
PadSizes == {0} \cup ((MaxFilenameLen - 3)..MaxFilenameLen)
Pad(k) == [i \in 1..k |-> "a"]
ATTACHMENT_BIN == ATTACHMENT \o <<".", "b", "i", "n">>
Fallbacks == {ATTACHMENT_BIN, <<"x", "/">>}

InitSanitize ==
    /\ pc = "sanitize"
    /\ \E lead \in NameLeads, k \in PadSizes, tail \in SeqsBetween(NameChars, 0, MaxTail),
          fallback \in Fallbacks :
         arg = [value |-> lead \o Pad(k) \o tail, fallback |-> fallback]
    /\ res = <<>>
    /\ MainIdle

\* main.rs 764: sanitize_filename(&filename_raw, "attachment.bin")
Sanitize ==
    /\ pc = "sanitize"
    /\ res' = sanitize_filename(arg.value, arg.fallback)
    /\ pc' = IF res'.panicked THEN "panicked" ELSE "sanitized"
    /\ UNCHANGED <<arg, mainVars>>

NextSanitize == Sanitize
SpecSanitize == InitSanitize /\ [][NextSanitize]_vars

\* C7 as claimed: sanitize_filename returns normally for every name and
\* fallback, and the name returned has at most 200 characters and holds no
\* '/', '\', NUL, CR or LF.
C7_AsClaimed ==
    /\ pc # "panicked"
    /\ pc = "sanitized" =>
          /\ Len(res.name) <= MaxFilenameLen
          /\ Range(res.name) \cap {"/", "\\", "NUL", "\r", "\n"} = {}

(***************************************************************************)
(* AttachmentClassifier: parse_param, parse_filename_from_headers,         *)
(* is_attachment_part, collect_attachment_parts, the inline flag           *)
(***************************************************************************)
\* str::splitn(2, sep): one piece, or the two pieces around the first sep
SplitN2(s, sep) ==
    IF \E i \in 1..Len(s) : s[i] = sep
    THEN LET i == CHOOSE k \in 1..Len(s) : s[k] = sep /\ \A j \in 1..(k - 1) : s[j] # sep
         IN <<SubSeq(s, 1, i - 1), SubSeq(s, i + 1, Len(s))>>
    ELSE <<s>>

RECURSIVE trim_matches(_, _)
\* str::trim_matches(c): every leading and trailing c removed
trim_matches(s, c) ==
    IF s # <<>> /\ Head(s) = c THEN trim_matches(Tail(s), c)
    ELSE IF s # <<>> /\ s[Len(s)] = c THEN trim_matches(SubSeq(s, 1, Len(s) - 1), c)
    ELSE s

RECURSIVE ParamLoop(_, _)
\* the loop of parse_param over the items left; `?` returns None from the function
ParamLoop(items, key_l) ==
    IF items = <<>> THEN None
    ELSE LET p == trim(Head(items))
             kv == SplitN2(p, "=")
             k == to_ascii_lowercase(trim(kv[1]))
             v == trim(kv[2])
             unquoted == trim(trim_matches(trim_matches(v, "\""), "'"))
         IN IF p = <<>> THEN ParamLoop(Tail(items), key_l)
            ELSE IF Len(kv) < 2 THEN None
            ELSE IF k # key_l THEN ParamLoop(Tail(items), key_l)
            ELSE IF unquoted = <<>> THEN None
            ELSE Some(unquoted)

parse_param(header_value, key) ==
    ParamLoop(Tail(Split(header_value, ";")), to_ascii_lowercase(key))

FILENAME == <<"f", "i", "l", "e", "n", "a", "m", "e">>
NAME == <<"n", "a", "m", "e">>

parse_filename_from_headers(mail) ==
    LET cd == header_first(mail, "Content-Disposition")
        ct == header_first(mail, "Content-Type")
    IN IF IsSome(cd) /\ IsSome(parse_param(cd[1], FILENAME)) THEN parse_param(cd[1], FILENAME)
       ELSE IF IsSome(ct) /\ IsSome(parse_param(ct[1], NAME)) THEN parse_param(ct[1], NAME)
       ELSE None

is_attachment_part(part) ==
    LET ctype == to_ascii_lowercase(part.ctype)
        cd == to_ascii_lowercase(unwrap_or_default(header_first(part, "Content-Disposition")))
        has_filename == IsSome(parse_filename_from_headers(part))
    IN IF part.subparts # <<>> THEN FALSE
       ELSE IF StartsWith(ctype, TEXT_PLAIN) \/ StartsWith(ctype, TEXT_HTML) THEN FALSE
       ELSE IF StartsWith(cd, ATTACHMENT) THEN TRUE
       ELSE IF StartsWith(cd, INLINE) /\ has_filename THEN TRUE
       ELSE has_filename

RECURSIVE collect_attachment_parts(_)
collect_attachment_parts(mail) ==
    IF mail.subparts = <<>> THEN (IF is_attachment_part(mail) THEN <<mail>> ELSE <<>>)
    ELSE Concat([i \in 1..Len(mail.subparts) |-> collect_attachment_parts(mail.subparts[i])])

\* main.rs 766-770
is_inline(part) ==
    LET cd == to_ascii_lowercase(unwrap_or_default(header_first(part, "Content-Disposition")))
    IN StartsWith(cd, INLINE) \/ IsSome(header_first(part, "Content-ID"))

\* main.rs 771-772
content_id(part) == header_first(part, "Content-ID")
content_type(part) == IF part.ctype # <<>> THEN Some(part.ctype) ELSE None

----
\* Inputs of the classifier: leaves over a pool of header values.
Quoted(s) == <<"\"">> \o s \o <<"\"">>
Param(key, value) == <<";", " ">> \o key \o <<"=">> \o value
X_PDF == <<"x", ".", "p", "d", "f">>
I_PNG == <<"i", ".", "p", "n", "g">>
CID1 == <<"<", "c", "1", ">">>

Dispositions ==
    { None,
      Some(ATTACHMENT),
      Some(ATTACHMENT \o Param(FILENAME, Quoted(X_PDF))),
      Some(<<"A">> \o Tail(ATTACHMENT) \o Param(<<"F">> \o Tail(FILENAME), X_PDF)),
      Some(INLINE),
      Some(<<"I">> \o Tail(INLINE) \o Param(FILENAME, Quoted(I_PNG))),
      Some(<<"f", "o", "r", "m", "-", "d", "a", "t", "a">> \o Param(NAME, X_PDF)),
      Some(ATTACHMENT \o <<";", " ", "x">> \o Param(FILENAME, Quoted(X_PDF))),
      Some(ATTACHMENT \o Param(FILENAME, Quoted(<<>>))) }

ContentTypes ==
    { [mimetype |-> <<"application/pdf">>, header |-> None],
      [mimetype |-> <<"application/pdf">>,
       header |-> Some(<<"a", "/", "p">> \o Param(NAME, Quoted(X_PDF)))],
      [mimetype |-> <<"image/png">>, header |-> Some(<<"i", "/", "p">>)],
      [mimetype |-> TEXT_PLAIN, header |-> Some(<<"t", "/", "p">> \o Param(NAME, X_PDF))] }

ContentIds == {None, Some(CID1), Some(<<" ">>)}

PartHeaders(cd, ct, cid) ==
    (IF IsSome(ct) THEN <<Header("Content-Type", ct[1])>> ELSE <<>>)
    \o (IF IsSome(cd) THEN <<Header("Content-Disposition", cd[1])>> ELSE <<>>)
    \o (IF IsSome(cid) THEN <<Header("Content-ID", cid[1])>> ELSE <<>>)

AttachmentLeaves ==
    {Leaf(ct.mimetype, PartHeaders(cd, ct.header, cid), None, Some(<<"%", "P", "D", "F">>)) :
        cd \in Dispositions, ct \in ContentTypes, cid \in ContentIds}

InitAttach ==
    /\ pc = "part"
    /\ arg \in [part : AttachmentLeaves]
    /\ res = <<>>
    /\ MainIdle

\* main.rs 751, 761-772: the classification of one part and the fields
\* taken from its headers
ClassifyPart ==
    /\ pc = "part"
    /\ res' = [is_attachment |-> is_attachment_part(arg.part),
               filename_raw |-> parse_filename_from_headers(arg.part),
               is_inline |-> is_inline(arg.part),
               content_id |-> content_id(arg.part),
               content_type |-> content_type(arg.part)]
    /\ pc' = "classified"
    /\ UNCHANGED <<arg, mainVars>>

NextAttach == ClassifyPart
SpecAttach == InitAttach /\ [][NextAttach]_vars

\* the trimmed Content-Disposition value, lower-cased
DispositionOf(part) ==
    IF \E i \in 1..Len(part.headers) : Lower(part.headers[i].name) = "content-disposition"
    THEN LET i == CHOOSE k \in 1..Len(part.headers) :
                     /\ Lower(part.headers[k].name) = "content-disposition"
                     /\ \A j \in 1..(k - 1) : Lower(part.headers[j].name) # "content-disposition"
         IN to_ascii_lowercase(trim(part.headers[i].value))
    ELSE <<>>

\* C6 as claimed: an attachment part whose Content-Disposition starts with
\* "attachment" gets is_inline = false whether or not it carries a Content-ID;
\* one whose Content-Disposition starts with "inline" gets is_inline = true.
C6_AsClaimed ==
    (pc = "classified" /\ res.is_attachment) =>
        /\ StartsWith(DispositionOf(arg.part), ATTACHMENT) => ~res.is_inline
        /\ StartsWith(DispositionOf(arg.part), INLINE) => res.is_inline

(***************************************************************************)
(* IdentifierGenerator: stable_uuid, sha256_bytes, the two seeds           *)
(***************************************************************************)
\* stable_uuid(seed).to_string(): SHA-256 of the seed, the first 16 bytes
\* with version and variant bits set.  The digest is kept symbolic: one token
\* per seed, equal seeds giving equal tokens and no two seeds colliding.
stable_uuid(seed) == <<"uuid:" \o ToString(seed)>>

\* sha256_bytes(bytes): the hex digest, symbolic in the same way
sha256_bytes(bytes) == <<"sha256:" \o ToString(bytes)>>

Digits == <<"0", "1", "2", "3", "4", "5", "6", "7", "8", "9">>

RECURSIVE Decimal(_)
\* format!("{}", n) of a usize
Decimal(n) == IF n < 10 THEN <<Digits[n + 1]>> ELSE Decimal(n \div 10) \o <<Digits[(n % 10) + 1]>>

\* format!("{:03}", n): zero-padded to three digits at least
Decimal03(n) == [i \in 1..(3 - Len(Decimal(n))) |-> "0"] \o Decimal(n)

\* EmailSeed with a fault seeded: the index counts the emails of the run
EmailSeedCountingRun(pst_file_id, source, message_id, idx) ==
    <<"p", "s", "t", ":">> \o pst_file_id \o <<"|", "s", "r", "c", ":">> \o source
       \o <<"|", "m", "i", "d", ":">> \o unwrap_or_default(message_id) \o <<"|", "i", "d", "x", ":">> \o Decimal(emails_total)

\* format!("pst:{}|src:{}|mid:{}|idx:{}", ..)
EmailSeed(pst_file_id, source, message_id, idx) ==
    <<"p", "s", "t", ":">> \o pst_file_id \o <<"|", "s", "r", "c", ":">> \o source
       \o <<"|", "m", "i", "d", ":">> \o unwrap_or_default(message_id) \o <<"|", "i", "d", "x", ":">> \o Decimal(idx)

\* format!("pst:{}|email:{}|hash:{}|name:{}|idx:{}", ..)
AttSeed(pst_file_id, email_id, attachment_hash, filename, idx) ==
    <<"p", "s", "t", ":">> \o pst_file_id \o <<"|", "e", "m", "a", "i", "l", ":">> \o email_id \o <<"|", "h", "a", "s", "h", ":">> \o attachment_hash
       \o <<"|", "n", "a", "m", "e", ":">> \o filename \o <<"|", "i", "d", "x", ":">> \o Decimal(idx)

(***************************************************************************)
(* parse_sender                                                            *)
(***************************************************************************)
\* str::find(c): Some(0-based offset of the first c) or None
Find(s, c) ==
    IF \E i \in 1..Len(s) : s[i] = c
    THEN Some((CHOOSE i \in 1..Len(s) : s[i] = c /\ \A j \in 1..(i - 1) : s[j] # c) - 1)
    ELSE None

\* if v.is_empty() { None } else { Some(v) }
NonEmpty(v) == IF v = <<>> THEN None ELSE Some(v)

\* text[start + 1..end] panics when start + 1 > end
parse_sender(from_header) ==
    LET text == trim(from_header)
        start == Find(text, "<")
        end == Find(text, ">")
    IN IF text = <<>> THEN [panicked |-> FALSE, email |-> None, name |-> None]
       ELSE IF IsSome(start) /\ IsSome(end)
            THEN IF start[1] + 1 > end[1]
                 THEN [panicked |-> TRUE, email |-> None, name |-> None]
                 ELSE [panicked |-> FALSE,
                       email |-> NonEmpty(trim(Slice(text, start[1] + 1, end[1]))),
                       name |-> NonEmpty(trim_matches(trim_matches(
                                    trim(Slice(text, 0, start[1])), "\""), "'"))]
       ELSE IF "@" \in Range(text) THEN [panicked |-> FALSE, email |-> Some(text), name |-> None]
       ELSE [panicked |-> FALSE, email |-> None, name |-> Some(text)]

(***************************************************************************)
(* main: the batch parameters                                              *)
(***************************************************************************)
args ==
    [pst_file_id |-> <<"b", "1">>,
     project_id |-> <<>>,
     case_id |-> <<"k">>,
     source_bucket |-> <<"s">>,
     source_key |-> <<"x", ".", "p", "s", "t">>,
     output_bucket |-> <<"o">>,
     output_prefix |-> <<"/", "p", "/">>,
     work_dir |-> <<"/", "w">>]

\* Path::join
PathJoin(a, b) == a \o <<"/">> \o b

work_root == PathJoin(args.work_dir, args.pst_file_id)
extract_dir == PathJoin(work_root, <<"e", "x", "t", "r", "a", "c", "t">>)

\* Path::strip_prefix(base).ok(): whole components only
strip_prefix(path, base) ==
    IF path = base THEN Some(<<>>)
    ELSE IF StartsWith(path, base \o <<"/">>) THEN Some(SubSeq(path, Len(base) + 2, Len(path)))
    ELSE None

\* lines 631-635
RelSource(path) ==
    LET p == strip_prefix(path, extract_dir)
    IN IF IsSome(p) THEN p[1] ELSE path

RECURSIVE trim_start_matches(_, _)
trim_start_matches(s, c) ==
    IF s # <<>> /\ Head(s) = c THEN trim_start_matches(Tail(s), c) ELSE s

prefix == trim_start_matches(args.output_prefix, "/")

\* if v.is_empty() { None } else { Some(v.clone()) } of project_id and case_id
OptionalArg(v) == NonEmpty(v)

(***************************************************************************)
(* main: from a file to its messages                                       *)
(***************************************************************************)
MinBlobLen == 10

HeaderPrefixes ==
    {<<"F", "r", "o", "m", ":">>, <<"R", "e", "t", "u", "r", "n", "-", "P", "a", "t", "h", ":">>, <<"R", "e", "c", "e", "i", "v", "e", "d", ":">>, <<"D", "a", "t", "e", ":">>, <<"S", "u", "b", "j", "e", "c", "t", ":">>}

\* lines 610-629: the messages of a blob, None where the blob is skipped
FileMessages(buf) ==
    IF Len(buf) < MinBlobLen THEN None
    ELSE IF looks_like_mbox(buf) THEN Some(split_mbox(buf))
    ELSE IF \A h \in HeaderPrefixes : ~StartsWith(buf, h) THEN None
    ELSE Some(<<buf>>)

\* iter.enumerate(): every item with its 0-based position
enumerate(v) == [i \in 1..Len(v) |-> [idx |-> i - 1, item |-> v[i]]]

(***************************************************************************)
(* main: the messages readpst leaves behind, and what mailparse makes of    *)
(* them.  mailparse is a library: parse_mail and dateparse are tables over  *)
(* the messages and dates of the inputs.                                    *)
(***************************************************************************)
SUBJECT == <<"S", "u", "b", "j", "e", "c", "t", ":">>

\* a message file: "Subject:", a one-character subject, a line break
Msg(tag) == SUBJECT \o <<tag, "\n">>

WithHeaders(headers, node) == [node EXCEPT !.headers = headers]

MID1 == <<"<", "m", "1", ">">>
DATE1 == <<"1", "J", "a", "n">>
HELLO == <<"h", "e", "l", "l", "o">>
PDF == <<"%", "P", "D", "F">>

\* a filename of 199 bytes, a two-byte character and one more byte
LongName == Pad(MaxFilenameLen - 1) \o <<"U+00E9", "x">>

PdfPart(cd, cid, raw) == Leaf(<<"application/pdf">>, PartHeaders(Some(cd), None, cid), None, raw)

MailOf(tag) ==
    CASE tag = "1" ->
           WithHeaders(<<Header("Received", <<"r", "1">>),
                         Header("Message-ID", <<" ">> \o MID1 \o <<" ">>),
                         Header("From", Quoted(<<"B", "o", "b">>) \o <<" ", "<", "b", "@", "x", ">">>),
                         Header("Date", DATE1),
                         Header("Received", <<" ">>),
                         Header("Received", <<"r", "2">>),
                         Header("Subject", <<"1">>)>>,
                       Multipart(<<"multipart/mixed">>,
                           <<Leaf(TEXT_PLAIN, <<>>, Some(HELLO), Some(HELLO)),
                             PdfPart(ATTACHMENT \o Param(FILENAME, Quoted(X_PDF)), Some(CID1), Some(PDF))>>))
      [] tag = "2" ->
           WithHeaders(<<Header("From", <<"b", "@", "x">>), Header("Date", <<"?">>), Header("Subject", <<"2">>)>>,
                       Multipart(<<"multipart/mixed">>,
                           <<PdfPart(ATTACHMENT, None, None),
                             PdfPart(ATTACHMENT, None, Some(<<>>)),
                             PdfPart(ATTACHMENT, None, Some(PDF))>>))
      [] tag = "3" ->
           Leaf(TEXT_PLAIN,
                <<Header("message-id", MID1),
                  Header("From", Quoted(<<" ", "B", "o", "b", " ">>) \o <<" ", "<", "b", "@", "x", ">">>),
                  Header("Subject", <<"3">>)>>,
                Some(HELLO \o NL), Some(HELLO \o NL))
      [] tag = "4" ->
           WithHeaders(<<Header("Subject", <<"4">>)>>,
                       Multipart(<<"multipart/mixed">>,
                           <<PdfPart(ATTACHMENT \o Param(FILENAME, LongName), None, Some(PDF))>>))
      [] tag = "5" ->
           Leaf(TEXT_PLAIN, <<Header("From", <<">", " ", "<">>), Header("Subject", <<"5">>)>>,
                Some(HELLO), Some(HELLO))

MailTags == {"1", "2", "3", "4", "5"}

\* line 639: mailparse::parse_mail(&msg_bytes), None for Err
ParseMail(msg_bytes) ==
    IF Len(msg_bytes) = Len(SUBJECT) + 2 /\ StartsWith(msg_bytes, SUBJECT)
       /\ msg_bytes[Len(SUBJECT) + 1] \in MailTags
    THEN Some(MailOf(msg_bytes[Len(SUBJECT) + 1]))
    ELSE None

\* lines 653-655: mailparse::dateparse(d).ok()
dateparse(d) == IF d = DATE1 THEN Some(0) ELSE None

\* the message loop with a fault seeded: the messages that do not parse are
\* dropped before the indices are handed out
EnumerateParsedMessages(v) == enumerate(SelectSeq(v, LAMBDA m : IsSome(ParseMail(m))))

\* line 637: messages.into_iter().enumerate()
EnumerateMessages(v) == enumerate(v)

\* line 752: parts.into_iter().enumerate()
EnumerateParts(v) == enumerate(v)

(***************************************************************************)
(* main: the records                                                       *)
(***************************************************************************)
header_all(mail, name) ==
    LET vs == get_all_values(mail.headers, name)
    IN SelectSeq([i \in 1..Len(vs) |-> trim(vs[i])], LAMBDA v : v # <<>>)

\* lines 651-659
SenderOf(mail) ==
    LET from_header == header_first(mail, "From")
    IN IF IsSome(from_header) THEN parse_sender(from_header[1])
       ELSE [panicked |-> FALSE, email |-> None, name |-> None]

\* lines 644-703: the EmailRecord of the message at msg_idx of its file
EmailRecord(source, idx, mail) ==
    LET Record(message_id, date_header, bodies, sender) ==
            [id |-> stable_uuid(EmailSeed(args.pst_file_id, source, message_id, idx)),
             pst_file_id |-> args.pst_file_id,
             project_id |-> OptionalArg(args.project_id),
             case_id |-> OptionalArg(args.case_id),
             source_path |-> source,
             message_id |-> message_id,
             in_reply_to |-> header_first(mail, "In-Reply-To"),
             references |-> header_first(mail, "References"),
             subject |-> header_first(mail, "Subject"),
             from |-> header_first(mail, "From"),
             to |-> header_first(mail, "To"),
             cc |-> header_first(mail, "Cc"),
             bcc |-> header_first(mail, "Bcc"),
             date |-> date_header,
             date_epoch |-> IF IsSome(date_header) THEN dateparse(date_header[1]) ELSE None,
             received |-> header_all(mail, "Received"),
             body_text |-> bodies.body_text,
             body_html |-> bodies.body_html,
             sender_email |-> sender.email,
             sender_name |-> sender.name]
    IN Record(header_first(mail, "Message-ID"), header_first(mail, "Date"),
              select_email_bodies(mail), SenderOf(mail))

\* lines 761-764
filename_raw(part, idx) ==
    LET f == parse_filename_from_headers(part)
    IN IF IsSome(f) THEN f[1]
       ELSE <<"a", "t", "t", "a", "c", "h", "m", "e", "n", "t", "-">> \o Decimal03(idx) \o <<".", "b", "i", "n">>

Filename(part, idx) == sanitize_filename(filename_raw(part, idx), ATTACHMENT_BIN)

\* line 781
SafeName(part, idx) == sanitize_filename(Filename(part, idx).name, ATTACHMENT_BIN)

\* lines 764, 781: one of the two sanitize_filename calls panics
SanitizePanics(part, idx) ==
    Filename(part, idx).panicked \/ SafeName(part, idx).panicked

\* line 783
AttKey(email_id, attachment_id, safe_name) ==
    prefix \o <<"a", "t", "t", "a", "c", "h", "m", "e", "n", "t", "s", "/">> \o email_id \o <<"/">>
       \o attachment_id \o <<"_", "_">> \o safe_name

\* lines 760-815: the AttachmentRecord of the part at part_idx of its email
AttachmentRecord(source, email_id, idx, part) ==
    LET Record(content, attachment_hash, filename, attachment_id, safe_name) ==
            [id |-> attachment_id,
             email_message_id |-> email_id,
             pst_file_id |-> args.pst_file_id,
             project_id |-> OptionalArg(args.project_id),
             case_id |-> OptionalArg(args.case_id),
             filename |-> filename,
             content_type |-> content_type(part),
             file_size_bytes |-> Len(content),
             s3_bucket |-> args.output_bucket,
             s3_key |-> AttKey(email_id, attachment_id, safe_name),
             attachment_hash |-> attachment_hash,
             is_inline |-> is_inline(part),
             content_id |-> content_id(part),
             source_path |-> source]
        Named(content, attachment_hash, filename) ==
            Record(content, attachment_hash, filename,
                   stable_uuid(AttSeed(args.pst_file_id, email_id, attachment_hash, filename, idx)),
                   sanitize_filename(filename, ATTACHMENT_BIN).name)
    IN Named(part.raw[1], sha256_bytes(part.raw[1]), Filename(part, idx).name)

\* lines 868-872, 908: the keys of the final artifacts, in upload order
ArtifactKeys ==
    <<prefix \o <<"emails.ndjson.gz">>,
      prefix \o <<"emails.csv.gz">>,
      prefix \o <<"attachments.ndjson.gz">>,
      prefix \o <<"attachments.csv.gz">>,
      prefix \o <<"manifest.json">>>>

\* lines 874-890; the digests, the duration and the version are left out
Manifest(emails_count, attachments_count) ==
    [pst_file_id |-> args.pst_file_id,
     source_bucket |-> args.source_bucket,
     source_key |-> args.source_key,
     output_bucket |-> args.output_bucket,
     output_prefix |-> prefix,
     emails_total |-> emails_count,
     attachments_total |-> attachments_count,
     ndjson_gz_key |-> ArtifactKeys[1],
     csv_gz_key |-> ArtifactKeys[2],
     attachments_ndjson_gz_key |-> ArtifactKeys[3],
     attachments_csv_gz_key |-> ArtifactKeys[4],
     manifest_key |-> ArtifactKeys[5]]

----
\* Inputs of main: the extraction directory of one run, with up to MaxFiles
\* files under it.
MaxFiles == 2
RelPaths == {<<"a">>, <<"d", "/", "b">>, <<"c">>}

FileContents ==
    { Msg("1"), Msg("4"), Msg("5"),
      EnvLine(<<"x">>) \o Msg("!") \o EnvLine(<<"x">>) \o Msg("1"),
      EnvLine(<<"x">>) \o Msg("2") \o EnvLine(<<>>) \o Msg("3"),
      <<"X", "-", "M", "e", "t", "a", ":">> \o Msg("1"),
      SUBJECT }

DirEntry(path) == [path |-> path, is_file |-> FALSE, buf |-> <<>>]
FileEntry(rel, buf) == [path |-> PathJoin(extract_dir, rel), is_file |-> TRUE, buf |-> buf]

Inputs ==
    UNION {{ {DirEntry(extract_dir)} \cup {FileEntry(p, c[p]) : p \in S} : c \in [S -> FileContents] } :
              S \in {T \in SUBSET RelPaths : T # {} /\ Cardinality(T) <= MaxFiles}}

Init ==
    /\ pc = "walk"
    /\ arg \in [entries : Inputs]
    /\ res = <<>>
    /\ todo = arg.entries
    /\ rel_source = <<>>
    /\ messages = <<>>
    /\ msg_idx = 0
    /\ id = <<>>
    /\ parts = <<>>
    /\ part_idx = 0
    /\ emails = <<>>
    /\ attachments = <<>>
    /\ emails_total = 0
    /\ attachments_total = 0
    /\ s3 = <<>>
    /\ manifest = None
    /\ artifact = 0

\* lines 602-605: an entry that is not a file
SkipEntry ==
    /\ pc = "walk"
    /\ \E entry \in todo :
         /\ ~entry.is_file
         /\ todo' = todo \ {entry}
    /\ UNCHANGED <<pc, arg, res, rel_source, messages, msg_idx, id, parts, part_idx, emails,
                   attachments, emails_total, attachments_total, s3, manifest, artifact>>

\* line 609: File::open or read_to_end fails, and main returns the error
ReadFails ==
    /\ pc = "walk"
    /\ \E entry \in todo : entry.is_file
    /\ pc' = "failed"
    /\ UNCHANGED <<arg, res, mainVars>>

\* lines 610-612, 619-627: a blob too short, or not looking like mail
SkipFile ==
    /\ pc = "walk"
    /\ \E entry \in todo :
         /\ entry.is_file
         /\ FileMessages(entry.buf) = None
         /\ todo' = todo \ {entry}
    /\ UNCHANGED <<pc, arg, res, rel_source, messages, msg_idx, id, parts, part_idx, emails,
                   attachments, emails_total, attachments_total, s3, manifest, artifact>>

\* lines 606-637: a mail file is read and split into its messages
OpenFile ==
    /\ pc = "walk"
    /\ \E entry \in todo :
         /\ entry.is_file
         /\ IsSome(FileMessages(entry.buf))
         /\ todo' = todo \ {entry}
         /\ messages' = EnumerateMessages(FileMessages(entry.buf)[1])
         /\ rel_source' = RelSource(entry.path)
    /\ pc' = "messages"
    /\ UNCHANGED <<arg, res, msg_idx, id, parts, part_idx, emails, attachments,
                   emails_total, attachments_total, s3, manifest, artifact>>

\* lines 639-642: the message does not parse
SkipMessage ==
    /\ pc = "messages"
    /\ messages # <<>>
    /\ ParseMail(Head(messages).item) = None
    /\ messages' = Tail(messages)
    /\ msg_idx' = Head(messages).idx
    /\ UNCHANGED <<pc, arg, res, todo, rel_source, id, parts, part_idx, emails, attachments,
                   emails_total, attachments_total, s3, manifest, artifact>>

\* lines 656-659: parse_sender panics on the From header
PanicInMessage ==
    /\ pc = "messages"
    /\ messages # <<>>
    /\ IsSome(ParseMail(Head(messages).item))
    /\ SenderOf(ParseMail(Head(messages).item)[1]).panicked
    /\ messages' = Tail(messages)
    /\ msg_idx' = Head(messages).idx
    /\ pc' = "panicked"
    /\ UNCHANGED <<arg, res, todo, rel_source, id, parts, part_idx, emails, attachments,
                   emails_total, attachments_total, s3, manifest, artifact>>

\* lines 639-752: the EmailRecord is written, the attachment parts collected
WriteEmail ==
    /\ pc = "messages"
    /\ messages # <<>>
    /\ IsSome(ParseMail(Head(messages).item))
    /\ \E mail \in {ParseMail(Head(messages).item)[1]} :
          /\ ~SenderOf(mail).panicked
          /\ \E record \in {EmailRecord(rel_source, Head(messages).idx, mail)} :
                /\ id' = record.id
                /\ emails' = Append(emails, record)
          /\ parts' = EnumerateParts(collect_attachment_parts(mail))
    /\ messages' = Tail(messages)
    /\ msg_idx' = Head(messages).idx
    /\ pc' = "parts"
    /\ UNCHANGED <<arg, res, todo, rel_source, part_idx, attachments,
                   emails_total, attachments_total, s3, manifest, artifact>>

\* get_body_raw() gave bytes, and some
Extracted(part) == IsSome(part.raw) /\ part.raw[1] # <<>>

\* SkipPart with a fault seeded: the part skipped is counted
SkipPartCounted ==
    /\ pc = "parts"
    /\ parts # <<>>
    /\ ~Extracted(Head(parts).item)
    /\ parts' = Tail(parts)
    /\ part_idx' = Head(parts).idx
    /\ attachments_total' = attachments_total + 1
    /\ UNCHANGED <<pc, arg, res, todo, rel_source, messages, msg_idx, id, emails, attachments,
                   emails_total, s3, manifest, artifact>>

\* lines 753-759: the raw bytes cannot be had, or there are none
SkipPart ==
    /\ pc = "parts"
    /\ parts # <<>>
    /\ ~Extracted(Head(parts).item)
    /\ parts' = Tail(parts)
    /\ part_idx' = Head(parts).idx
    /\ UNCHANGED <<pc, arg, res, todo, rel_source, messages, msg_idx, id, emails, attachments,
                   emails_total, attachments_total, s3, manifest, artifact>>

\* lines 764, 781: sanitize_filename panics in truncate
PanicInPart ==
    /\ pc = "parts"
    /\ parts # <<>>
    /\ Extracted(Head(parts).item)
    /\ SanitizePanics(Head(parts).item, Head(parts).idx)
    /\ parts' = Tail(parts)
    /\ part_idx' = Head(parts).idx
    /\ pc' = "panicked"
    /\ UNCHANGED <<arg, res, todo, rel_source, messages, msg_idx, id, emails, attachments,
                   emails_total, attachments_total, s3, manifest, artifact>>

\* lines 790-791: the local write or the upload fails, and main returns the error
UploadAttachmentFails ==
    /\ pc = "parts"
    /\ parts # <<>>
    /\ Extracted(Head(parts).item)
    /\ ~SanitizePanics(Head(parts).item, Head(parts).idx)
    /\ parts' = Tail(parts)
    /\ part_idx' = Head(parts).idx
    /\ pc' = "failed"
    /\ UNCHANGED <<arg, res, todo, rel_source, messages, msg_idx, id, emails, attachments,
                   emails_total, attachments_total, s3, manifest, artifact>>

\* lines 760-840: the attachment is uploaded and its record written
WriteAttachment ==
    /\ pc = "parts"
    /\ parts # <<>>
    /\ Extracted(Head(parts).item)
    /\ ~SanitizePanics(Head(parts).item, Head(parts).idx)
    /\ \E record \in {AttachmentRecord(rel_source, id, Head(parts).idx, Head(parts).item)} :
          /\ s3' = Append(s3, record.s3_key)
          /\ attachments' = Append(attachments, record)
    /\ attachments_total' = attachments_total + 1
    /\ parts' = Tail(parts)
    /\ part_idx' = Head(parts).idx
    /\ UNCHANGED <<pc, arg, res, todo, rel_source, messages, msg_idx, id, emails,
                   emails_total, manifest, artifact>>

\* line 843: the attachment loop is over
EndMessage ==
    /\ pc = "parts"
    /\ parts = <<>>
    /\ emails_total' = emails_total + 1
    /\ pc' = "messages"
    /\ UNCHANGED <<arg, res, todo, rel_source, messages, msg_idx, id, parts, part_idx, emails,
                   attachments, attachments_total, s3, manifest, artifact>>

\* line 637: the message loop is over
EndFile ==
    /\ pc = "messages"
    /\ messages = <<>>
    /\ pc' = "walk"
    /\ UNCHANGED <<arg, res, mainVars>>

\* lines 847-892: the outputs are finished and the manifest written
Finish ==
    /\ pc = "walk"
    /\ todo = {}
    /\ manifest' = Some(Manifest(emails_total, attachments_total))
    /\ pc' = "upload"
    /\ UNCHANGED <<arg, res, todo, rel_source, messages, msg_idx, id, parts, part_idx, emails,
                   attachments, emails_total, attachments_total, s3, artifact>>

\* lines 894-910: the next final artifact is uploaded
UploadArtifact ==
    /\ pc = "upload"
    /\ artifact < Len(ArtifactKeys)
    /\ s3' = Append(s3, ArtifactKeys[artifact + 1])
    /\ artifact' = artifact + 1
    /\ pc' = IF artifact + 1 = Len(ArtifactKeys) THEN "done" ELSE "upload"
    /\ UNCHANGED <<arg, res, todo, rel_source, messages, msg_idx, id, parts, part_idx, emails,
                   attachments, emails_total, attachments_total, manifest>>

\* A final upload that fails without ending the run.
UploadArtifactFailsGoesOn ==
    /\ pc = "upload"
    /\ artifact < Len(ArtifactKeys)
    /\ artifact' = artifact + 1
    /\ pc' = IF artifact + 1 = Len(ArtifactKeys) THEN "done" ELSE "upload"
    /\ UNCHANGED <<arg, res, todo, rel_source, messages, msg_idx, id, parts, part_idx, emails,
                   attachments, emails_total, attachments_total, s3, manifest>>

\* lines 894-910: an upload fails, and main returns the error
UploadArtifactFails ==
    /\ pc = "upload"
    /\ artifact < Len(ArtifactKeys)
    /\ pc' = "failed"
    /\ UNCHANGED <<arg, res, mainVars>>

Next ==
    \/ SkipEntry
    \/ ReadFails
    \/ SkipFile
    \/ OpenFile
    \/ SkipMessage
    \/ PanicInMessage
    \/ WriteEmail
    \/ SkipPart
    \/ PanicInPart
    \/ UploadAttachmentFails
    \/ WriteAttachment
    \/ EndMessage
    \/ EndFile
    \/ Finish
    \/ UploadArtifact
    \/ UploadArtifactFails

Spec == Init /\ [][Next]_vars

----
\* The messages and the parts of the input, by position.
FileEntries == {e \in arg.entries : e.is_file}

MessagesOf(e) == IF IsSome(FileMessages(e.buf)) THEN FileMessages(e.buf)[1] ELSE <<>>

\* the messages that parse: a file, a 1-based position among its messages,
\* and the mail parsed
ParsedItems ==
    UNION {LET msgs == MessagesOf(e)
           IN {[entry |-> e, pos |-> i, mail |-> ParseMail(msgs[i])[1]] :
                  i \in {k \in 1..Len(msgs) : IsSome(ParseMail(msgs[k]))}} :
           e \in FileEntries}

MailAt(item) == item.mail

PartsAt(item) == collect_attachment_parts(item.mail)

\* the attachment parts whose bytes can be had: a message, a 1-based
\* position among its attachment parts, and the part
ExtractedParts ==
    UNION {LET ps == PartsAt(it)
           IN {[item |-> it, pos |-> j, part |-> ps[j]] :
                  j \in {k \in 1..Len(ps) : Extracted(ps[k])}} :
           it \in ParsedItems}

PartAt(p) == p.part

\* the id an email gets from its own file and position alone
EmailIdAt(item) ==
    stable_uuid(EmailSeed(args.pst_file_id, RelSource(item.entry.path),
                          header_first(MailAt(item), "Message-ID"), item.pos - 1))

\* the id an attachment gets from its email, its bytes, its name and its position
AttachmentIdAt(p) ==
    stable_uuid(AttSeed(args.pst_file_id, EmailIdAt(p.item), sha256_bytes(PartAt(p).raw[1]),
                        Filename(PartAt(p), p.pos - 1).name, p.pos - 1))

\* C1: whatever order the files are visited in, a run that completes has
\* written exactly the email ids computed from (batch id, relative source
\* path, Message-ID or empty, index of the message in its file) and exactly
\* the attachment ids computed from (batch id, parent email id, content hash,
\* sanitized filename, part index); a run that stops early has written some
\* of them and no other.
C1_SameIdentifiers ==
    LET email_ids == {emails[k].id : k \in 1..Len(emails)}
        attachment_ids == {attachments[k].id : k \in 1..Len(attachments)}
        same_email_ids == {EmailIdAt(item) : item \in ParsedItems}
        same_attachment_ids == {AttachmentIdAt(p) : p \in ExtractedParts}
    IN /\ email_ids \subseteq same_email_ids
       /\ attachment_ids \subseteq same_attachment_ids
       /\ pc = "done" => email_ids = same_email_ids /\ attachment_ids = same_attachment_ids

\* a completed run that visited file "c" before file "a", each with an email
C1_Witness ==
    /\ pc = "done"
    /\ attachments # <<>>
    /\ \E i, j \in 1..Len(emails) :
          i < j /\ emails[i].source_path = <<"c">> /\ emails[j].source_path = <<"a">>

\* the record of a message, from its own file and position alone
ExpectedEmail(item) == EmailRecord(RelSource(item.entry.path), item.pos - 1, MailAt(item))

\* the record of an attachment part, from its own message and position alone
ExpectedAttachment(p) ==
    AttachmentRecord(RelSource(p.item.entry.path), ExpectedEmail(p.item).id, p.pos - 1, PartAt(p))

\* every record written is the one its message or part gets from its own
\* position, and a completed run has the record of every message that parses
\* and of every part with bytes
RecordsAsExpected ==
    LET expected_emails == {ExpectedEmail(item) : item \in ParsedItems}
        expected_attachments == {ExpectedAttachment(p) : p \in ExtractedParts}
    IN /\ Range(emails) \subseteq expected_emails
       /\ Range(attachments) \subseteq expected_attachments
       /\ pc = "done" => Range(emails) = expected_emails /\ Range(attachments) = expected_attachments

\* a step at a message that does not parse, or at a part without bytes,
\* drops that item and nothing else, and leaves the run in its loop
SkipGoesOn ==
    /\ (pc = "messages" /\ messages # <<>> /\ ParseMail(Head(messages).item) = None) =>
          /\ pc' = "messages"
          /\ messages' = Tail(messages)
          /\ UNCHANGED <<todo, rel_source, emails, attachments, emails_total, attachments_total, s3>>
    /\ (pc = "parts" /\ parts # <<>> /\ ~Extracted(Head(parts).item)) =>
          /\ pc' = "parts"
          /\ parts' = Tail(parts)
          /\ UNCHANGED <<todo, rel_source, messages, id, emails, attachments, emails_total,
                         attachments_total, s3>>

\* C8: a message that does not parse, and a part whose bytes cannot be had
\* or are empty, is skipped alone: the step that meets it drops it and stays
\* in the loop, every record written is the one its message or part gets
\* from its own position in its file or email, skipped neighbours counted,
\* and a run that completes has written the record of every message that
\* parses and of every part with bytes.
C8_SkipsAreIsolated == []RecordsAsExpected /\ [][SkipGoesOn]_vars

\* a completed run with the record of a message that follows one that did
\* not parse, and the record of a part that follows two skipped ones
C8_Witness ==
    /\ pc = "done"
    /\ \E item \in ParsedItems :
          /\ item.pos > 1
          /\ ParseMail(MessagesOf(item.entry)[item.pos - 1]) = None
          /\ ExpectedEmail(item) \in Range(emails)
    /\ \E p \in ExtractedParts :
          /\ p.pos > 2
          /\ PartsAt(p.item)[1].raw = None
          /\ PartsAt(p.item)[2].raw = Some(<<>>)
          /\ ExpectedAttachment(p) \in Range(attachments)

\* the manifest is written
Reported == pc \in {"upload", "done"} \/ (pc = "failed" /\ IsSome(manifest))

\* C9: the totals reported equal the numbers of records written, which are
\* the number of messages that parse and the number of attachment parts with
\* bytes: blobs, messages and parts that were skipped are not counted and
\* have no record.
C9_TotalsMatchRecords ==
    Reported =>
        /\ manifest[1].emails_total = Len(emails)
        /\ manifest[1].attachments_total = Len(attachments)
        /\ emails_total = Len(emails)
        /\ attachments_total = Len(attachments)
        /\ Len(emails) = Cardinality(ParsedItems)
        /\ Len(attachments) = Cardinality(ExtractedParts)

\* a completed run over a skipped blob, a message that did not parse and
\* skipped parts, with records written
C9_Witness ==
    /\ pc = "done"
    /\ \E e \in FileEntries : MessagesOf(e) # <<>> /\ ParseMail(MessagesOf(e)[1]) = None
    /\ \E item \in ParsedItems : \E k \in 1..Len(PartsAt(item)) : ~Extracted(PartsAt(item)[k])
    /\ manifest[1].emails_total > 0
    /\ manifest[1].attachments_total > 0

(***************************************************************************)
(* MessageSegmenter: the boundaries of blobs that look like mbox           *)
(***************************************************************************)
\* Inputs of the boundary scan: blobs of up to MaxScanPieces pieces.
MaxScanPieces == 4

ScanBlobs == {Concat(ps) : ps \in SeqsBetween(MsgPieces, 1, MaxScanPieces)}

InitScan ==
    /\ pc = "scan"
    /\ arg \in [buf : ScanBlobs]
    /\ res = <<>>
    /\ MainIdle

\* main.rs 616-617, 384-400: a blob that looks like mbox is scanned for its
\* boundaries and split
ScanMbox ==
    /\ pc = "scan"
    /\ looks_like_mbox(arg.buf)
    /\ res' = [starts |-> MboxStarts(arg.buf), messages |-> split_mbox(arg.buf)]
    /\ pc' = "scanned"
    /\ UNCHANGED <<arg, mainVars>>

NextScan == ScanMbox
SpecScan == InitScan /\ [][NextScan]_vars

\* offset 0 if the blob starts with "From ", and every offset i + 1 where
\* byte i is a line break immediately followed by "From "
BoundariesAsClaimed(buf) ==
    (IF StartsWith(buf, FromSp) THEN {0} ELSE {})
    \cup {i + 1 : i \in {j \in 0..(Len(buf) - 1) :
                           buf[j + 1] = "\n" /\ StartsWith(Slice(buf, j + 1, Len(buf)), FromSp)}}

\* C11 as claimed: for a blob that looks_like_mbox accepts, the boundaries
\* split_mbox uses are offset 0 (if the blob starts with "From ") and every
\* offset after a line break followed by "From ", the last 6 bytes included;
\* there is at least one, and the blob is never returned whole.
C11_AsClaimed ==
    pc = "scanned" =>
        /\ Range(res.starts) = BoundariesAsClaimed(arg.buf)
        /\ res.starts # <<>>
        /\ res.messages # <<arg.buf>>

\* the part is a text/plain or text/html leaf
IsTextLeaf(part) ==
    StartsWith(to_ascii_lowercase(part.ctype), TEXT_PLAIN)
    \/ StartsWith(to_ascii_lowercase(part.ctype), TEXT_HTML)

\* C12 as claimed: a leaf is an attachment part exactly when it is not
\* text/plain or text/html and its Content-Disposition starts with
\* "attachment", or starts with "inline" and the part carries a filename, or
\* is missing and the part carries a filename or name; a leaf with any other
\* disposition is not an attachment part.
C12_AsClaimed ==
    pc = "classified" =>
        (res.is_attachment <=>
            /\ ~IsTextLeaf(arg.part)
            /\ \/ StartsWith(DispositionOf(arg.part), ATTACHMENT)
               \/ StartsWith(DispositionOf(arg.part), INLINE) /\ IsSome(res.filename_raw)
               \/ DispositionOf(arg.part) = <<>> /\ IsSome(res.filename_raw))

(***************************************************************************)
(* parse_sender over From-header values                                    *)
(***************************************************************************)
\* Inputs of parse_sender: values of up to MaxSenderLen characters.
MaxSenderLen == 4
SenderChars == {"a", "@", "<", ">", " ", "\""}

InitSender ==
    /\ pc = "sender"
    /\ arg \in [value : SeqsBetween(SenderChars, 0, MaxSenderLen)]
    /\ res = <<>>
    /\ MainIdle

\* main.rs 656-659: from_header.as_deref().map(parse_sender)
ParseSender ==
    /\ pc = "sender"
    /\ res' = parse_sender(arg.value)
    /\ pc' = IF res'.panicked THEN "panicked" ELSE "parsed"
    /\ UNCHANGED <<arg, mainVars>>

NextSender == ParseSender
SpecSender == InitSender /\ [][NextSender]_vars

\* the positions of a '<' and of a '>' that follows it, the first ones
AnglePair(text) ==
    {<<i, j>> \in (1..Len(text)) \X (1..Len(text)) :
        /\ text[i] = "<" /\ \A k \in 1..(i - 1) : text[k] # "<"
        /\ i < j /\ text[j] = ">" /\ \A k \in (i + 1)..(j - 1) : text[k] # ">"}

\* C13 as claimed: parse_sender returns for every From value; with a '<'
\* followed later by a '>' the email is the text between them and the name
\* the text before '<'; otherwise the whole trimmed value is the email if
\* it contains '@', and the display name if it does not.
C13_AsClaimed ==
    /\ pc # "panicked"
    /\ pc = "parsed" =>
          LET text == trim(arg.value)
          IN IF AnglePair(text) # {}
             THEN \E ij \in AnglePair(text) :
                     /\ res.email = NonEmpty(trim(SubSeq(text, ij[1] + 1, ij[2] - 1)))
                     /\ res.name = NonEmpty(trim_matches(trim_matches(
                                       trim(SubSeq(text, 1, ij[1] - 1)), "\""), "'"))
             ELSE IF text = <<>> THEN res.email = None /\ res.name = None
             ELSE IF "@" \in Range(text) THEN res.email = Some(text) /\ res.name = None
             ELSE res.email = None /\ res.name = Some(text)

\* the unquoted, trimmed values of the parameters of a header value that are
\* written key=value with the given key, in header order, empty ones left out
ParamValues(header_value, key) ==
    LET ps == Tail(Split(header_value, ";"))
        Key(p) == to_ascii_lowercase(trim(SplitN2(trim(p), "=")[1]))
        Value(p) == trim(trim_matches(trim_matches(trim(SplitN2(trim(p), "=")[2]), "\""), "'"))
        named == SelectSeq(ps, LAMBDA p : Len(SplitN2(trim(p), "=")) = 2
                                          /\ Key(p) = to_ascii_lowercase(key)
                                          /\ Value(p) # <<>>)
    IN [i \in 1..Len(named) |-> Value(named[i])]

\* the trimmed value of the first header of that name, <<>> if there is none
HeaderValue(part, name) ==
    LET vs == get_all_values(part.headers, name)
    IN IF vs = <<>> THEN <<>> ELSE trim(vs[1])

\* C14 as claimed: the filename is the unquoted, trimmed value of the
\* filename parameter of Content-Disposition when there is one with a
\* non-empty value, whatever parameters precede it (also ones without '='),
\* the key matched case-insensitively; otherwise the name parameter of
\* Content-Type under the same rule; otherwise absent.
C14_AsClaimed ==
    pc = "classified" =>
        LET filenames == ParamValues(HeaderValue(arg.part, "Content-Disposition"), FILENAME)
            names == ParamValues(HeaderValue(arg.part, "Content-Type"), NAME)
        IN res.filename_raw = IF filenames # <<>> THEN Some(filenames[1])
                              ELSE IF names # <<>> THEN Some(names[1])
                              ELSE None

\* an optional field is absent, or not empty and without leading or
\* trailing whitespace
TrimmedOrAbsent(field) == field = None \/ (field[1] # <<>> /\ trim(field[1]) = field[1])

\* C15 as claimed: in every EmailRecord written, message_id, in_reply_to,
\* references, subject, from, to, cc, bcc, date, sender_email, sender_name,
\* body_text and body_html are absent or hold a non-empty value without
\* leading or trailing whitespace, and every element of received is trimmed
\* and not empty.
C15_AsClaimed ==
    \A k \in 1..Len(emails) :
        LET r == emails[k]
        IN /\ \A field \in {r.message_id, r.in_reply_to, r.references, r.subject, r.from, r.to,
                            r.cc, r.bcc, r.date, r.sender_email, r.sender_name,
                            r.body_text, r.body_html} : TrimmedOrAbsent(field)
           /\ \A i \in 1..Len(r.received) : r.received[i] # <<>> /\ trim(r.received[i]) = r.received[i]

(***************************************************************************)
(* IdentifierGenerator: the seeds of two messages, of two attachments      *)
(***************************************************************************)
\* Inputs of the seeds: pairs of component tuples, indices up to MaxSeedIdx.
MaxSeedIdx == 1
MID_SEP == <<"|", "m", "i", "d", ":">>
IDX_SEP == <<"|", "i", "d", "x", ":">>
SeedPaths == {<<"a">>, <<"a">> \o MID_SEP \o <<"b">>}
SeedMessageIds == {None, Some(<<"c">>), Some(<<"b">> \o MID_SEP \o <<"c">>)}
SeedNames == {<<"x">>, <<"x">> \o IDX_SEP \o <<"1">>}
SeedEmailIds == {stable_uuid(<<"e", "1">>), stable_uuid(<<"e", "2">>)}
SeedHashes == {sha256_bytes(<<"%">>), sha256_bytes(<<"P">>)}

EmailComponents == [source : SeedPaths, message_id : SeedMessageIds, idx : 0..MaxSeedIdx]
AttComponents ==
    [email_id : SeedEmailIds, hash : SeedHashes, filename : SeedNames, idx : 0..MaxSeedIdx]

InitSeed ==
    /\ pc \in {"email seeds", "attachment seeds"}
    /\ arg \in IF pc = "email seeds" THEN [a : EmailComponents, b : EmailComponents]
               ELSE [a : AttComponents, b : AttComponents]
    /\ res = <<>>
    /\ MainIdle

\* main.rs 663-669, for two messages of one run
EmailSeeds ==
    /\ pc = "email seeds"
    /\ res' = [a |-> EmailSeed(args.pst_file_id, arg.a.source, arg.a.message_id, arg.a.idx),
               b |-> EmailSeed(args.pst_file_id, arg.b.source, arg.b.message_id, arg.b.idx)]
    /\ pc' = "seeded"
    /\ UNCHANGED <<arg, mainVars>>

\* main.rs 775-778, for two attachments of one run
AttSeeds ==
    /\ pc = "attachment seeds"
    /\ res' = [a |-> AttSeed(args.pst_file_id, arg.a.email_id, arg.a.hash, arg.a.filename, arg.a.idx),
               b |-> AttSeed(args.pst_file_id, arg.b.email_id, arg.b.hash, arg.b.filename, arg.b.idx)]
    /\ pc' = "seeded"
    /\ UNCHANGED <<arg, mainVars>>

NextSeed == EmailSeeds \/ AttSeeds
SpecSeed == InitSeed /\ [][NextSeed]_vars

\* C16 as claimed: two messages that differ in relative source path,
\* Message-ID or index get different email seeds, and two attachments that
\* differ in parent email id, content hash, sanitized filename or part index
\* get different attachment seeds, also when a component holds '|' or "|mid:".
C16_AsClaimed == pc = "seeded" => (arg.a # arg.b => res.a # res.b)

\* C17 as claimed: for every name and every non-empty fallback the name that
\* sanitize_filename returns is non-empty.
C17_AsClaimed == (pc = "sanitized" /\ arg.fallback # <<>>) => res.name # <<>>

\* C18 as claimed: sanitize_filename is idempotent, so the name sanitized
\* once (the AttachmentRecord filename) equals the name sanitized twice (the
\* name component of the local path and of the storage key).
C18_AsClaimed ==
    pc = "sanitized" =>
        \E again \in {sanitize_filename(res.name, arg.fallback)} :
            /\ ~again.panicked
            /\ again.name = res.name

(***************************************************************************)
(* Orchestrator: the order of the uploads                                  *)
(***************************************************************************)
\* line 872
manifest_key == prefix \o <<"manifest.json">>

\* lines 868-871: the keys of the four data artifacts
DataArtifactKeys == Range(ArtifactKeys) \ {manifest_key}

Uploaded(key) == key \in Range(s3)

\* C19: the manifest is uploaded only after the four data artifacts are
\* finished and uploaded, and every attachment object is uploaded before its
\* AttachmentRecord is written: in every reachable state each emitted
\* AttachmentRecord names an uploaded object; if the manifest is uploaded then
\* the outputs are finished and the four data artifacts are uploaded; and a
\* run that an upload failure stopped has not uploaded the manifest.
C19_ManifestLast ==
    /\ \A k \in DOMAIN attachments : Uploaded(attachments[k].s3_key)
    /\ Uploaded(manifest_key) =>
          /\ IsSome(manifest)
          /\ \A key \in DataArtifactKeys : Uploaded(key)
    /\ pc = "failed" => ~Uploaded(manifest_key)

\* A run with an attachment that uploaded its manifest.
C19_Witness == pc = "done" /\ attachments # <<>> /\ Uploaded(manifest_key)

\* A run that the failure of a final upload stopped after an attachment record.
C19_FailedUpload == pc = "failed" /\ artifact > 0 /\ attachments # <<>>
====
